---- MODULE Spec2Model ----
(***************************************************************************)
(* Model of the resumable AIS batch pipeline (batch_process.py,            *)
(* download_ais.py, process_ais.py, config.py).                            *)
(*                                                                         *)
(* Strings are modelled as sequences of tokens (one-character strings for  *)
(* digits and separators, longer tokens for fixed fragments), files as     *)
(* functions from a name to a content record, and the single thread of     *)
(* control of main() by the program counter pc.                            *)
(***************************************************************************)
EXTENDS Integers, Sequences, FiniteSets, TLC

\* Number of consecutive calendar days a run may be configured over.
MaxDays == 3

\* Number of invocations of main() in one behaviour.
MaxRuns == 2

----------------------------------------------------------------------------
(* Dates and their formatting                                              *)

\* datetime.date values: the first configurable day of the model's window.
WindowStart == [year |-> 2022, month |-> 1, day |-> 30]

IsLeap(y) == (y % 4 = 0 /\ y % 100 # 0) \/ y % 400 = 0

DaysInMonth(y, m) ==
    IF m = 2 THEN (IF IsLeap(y) THEN 29 ELSE 28)
    ELSE IF m \in {4, 6, 9, 11} THEN 30 ELSE 31

\* current += timedelta(days=1)
NextDay(d) ==
    IF d.day < DaysInMonth(d.year, d.month)
    THEN [d EXCEPT !.day = d.day + 1]
    ELSE IF d.month < 12
         THEN [year |-> d.year, month |-> d.month + 1, day |-> 1]
         ELSE [year |-> d.year + 1, month |-> 1, day |-> 1]

\* current <= end_date on datetime.date
DateLeq(a, b) ==
    \/ a.year < b.year
    \/ a.year = b.year /\ a.month < b.month
    \/ a.year = b.year /\ a.month = b.month /\ a.day <= b.day

RECURSIVE PlusDays(_, _)
PlusDays(d, n) == IF n = 0 THEN d ELSE PlusDays(NextDay(d), n - 1)

\* The calendar days a run can be configured over (START_DATE / END_DATE).
Window == {PlusDays(WindowStart, n) : n \in 0..(MaxDays - 1)}

\* The values of END_DATE: any day of the window, or the day before
\* START_DATE (an empty range).
Ends == Window \cup {[year |-> 2022, month |-> 1, day |-> 29]}

DigitChars == <<"0", "1", "2", "3", "4", "5", "6", "7", "8", "9">>

\* str(n) of a non-negative integer, one token per digit.
RECURSIVE Str(_)
Str(n) == IF n < 10 THEN <<DigitChars[n + 1]>>
          ELSE Append(Str(n \div 10), DigitChars[(n % 10) + 1])

RECURSIVE Zeros(_)
Zeros(k) == IF k <= 0 THEN <<>> ELSE <<"0">> \o Zeros(k - 1)

\* format(n, "0<w>d"): zero-padded to a width of at least w.
Pad(n, w) == Zeros(w - Len(Str(n))) \o Str(n)

\* date.isoformat(): "YYYY-MM-DD"
isoformat(d) ==
    Pad(d.year, 4) \o <<"-">> \o Pad(d.month, 2) \o <<"-">> \o Pad(d.day, 2)

\* date.fromisoformat on the strings this model builds
RECURSIVE Num(_)
Num(s) ==
    IF s = <<>> THEN 0
    ELSE LET c == s[Len(s)]
             v == CHOOSE k \in 0..9 : DigitChars[k + 1] = c
         IN  10 * Num(SubSeq(s, 1, Len(s) - 1)) + v

\* str.split(sep): the fields of s between occurrences of the token sep.
RECURSIVE split(_, _)
split(s, sep) ==
    IF \A i \in 1..Len(s) : s[i] # sep THEN <<s>>
    ELSE LET i == CHOOSE k \in 1..Len(s) :
                      s[k] = sep /\ \A j \in 1..(k - 1) : s[j] # sep
         IN  <<SubSeq(s, 1, i - 1)>> \o split(SubSeq(s, i + 1, Len(s)), sep)

fromisoformat(s) ==
    LET f == split(s, "-")
    IN  [year |-> Num(f[1]), month |-> Num(f[2]), day |-> Num(f[3])]

----------------------------------------------------------------------------
(* config.py                                                               *)

\* AIS_URL_TEMPLATE.format(year=year, month=month, day=day)
AIS_URL_TEMPLATE(year, month, day) ==
    <<"https:", "/", "/", "coast.noaa.gov", "/", "htdata", "/", "CMSP", "/",
      "AISDataHandler", "/">> \o Str(year) \o <<"/", "AIS_">> \o Str(year)
      \o <<"_">> \o Pad(month, 2) \o <<"_">> \o Pad(day, 2) \o <<".zip">>

EXCLUDED_VESSEL_TYPES == {30, 36, 37} \cup (60..69)

----------------------------------------------------------------------------
(* process_ais.py: lease polygons and the two-stage filter                 *)

\* The lease polygons read from LEASE_GEOJSON, already in EPSG:4326.  Each
\* geometry is an axis-parallel rectangle on an integer lon/lat grid.
LeaseFile ==
    << [LEASE_NUMBER |-> "OCS-A", geometry |-> [minx |-> 1, miny |-> 1, maxx |-> 3, maxy |-> 3]],
       [LEASE_NUMBER |-> "OCS-B", geometry |-> [minx |-> 5, miny |-> 2, maxx |-> 7, maxy |-> 4]] >>

\* load_lease_boundaries(): the cached GeoDataFrame once it is loaded.
load_lease_boundaries == LeaseFile

Min(S) == CHOOSE x \in S : \A y \in S : x <= y
Max(S) == CHOOSE x \in S : \A y \in S : x >= y

\* Faulty variant: the bounds of the first polygon, not of all of them
get_lease_bounds_FirstOnly ==
    LET g == load_lease_boundaries[1].geometry
    IN  [min_lon |-> g.minx, min_lat |-> g.miny,
         max_lon |-> g.maxx, max_lat |-> g.maxy]

\* gdf.total_bounds as the dict get_lease_bounds() returns.
get_lease_bounds ==
    LET gdf == load_lease_boundaries
        I   == DOMAIN gdf
    IN  [min_lon |-> Min({gdf[i].geometry.minx : i \in I}),
         min_lat |-> Min({gdf[i].geometry.miny : i \in I}),
         max_lon |-> Max({gdf[i].geometry.maxx : i \in I}),
         max_lat |-> Max({gdf[i].geometry.maxy : i \in I})]

\* The polars filter expression of the scan: sentinel coordinates, excluded
\* vessel types and the inclusive overall bounding box.
PrefilterKeeps(row, bounds) ==
    /\ row.LAT # 91
    /\ row.LON # 181
    /\ row.VesselType \notin EXCLUDED_VESSEL_TYPES
    /\ row.LAT >= bounds.min_lat
    /\ row.LAT <= bounds.max_lat
    /\ row.LON >= bounds.min_lon
    /\ row.LON <= bounds.max_lon

Prefilter(rows) ==
    LET bounds == get_lease_bounds
        Keep(row) == PrefilterKeeps(row, bounds)
    IN  SelectSeq(rows, Keep)

\* Faulty variant: predicate "intersects", a point on the boundary counts
Within_Closed(lon, lat, g) ==
    /\ g.minx <= lon /\ lon <= g.maxx
    /\ g.miny <= lat /\ lat <= g.maxy

\* shapely predicate "within" of Point(lon, lat) against a polygon: the
\* point is in the interior, not on the boundary.
Within(lon, lat, g) ==
    /\ g.minx < lon /\ lon < g.maxx
    /\ g.miny < lat /\ lat < g.maxy

\* The leases a point joins with, in lease order.
RECURSIVE JoinRow(_, _, _)
JoinRow(row, leases, i) ==
    IF i > Len(leases) THEN <<>>
    ELSE (IF Within(row.LON, row.LAT, leases[i].geometry)
          THEN <<[LAT |-> row.LAT, LON |-> row.LON, VesselType |-> row.VesselType,
                  LEASE_NUMBER |-> leases[i].LEASE_NUMBER]>>
          ELSE <<>>) \o JoinRow(row, leases, i + 1)

\* gpd.sjoin(ais_gdf, leases, how="inner", predicate="within")
RECURSIVE sjoin(_, _)
sjoin(df, leases) ==
    IF df = <<>> THEN <<>>
    ELSE JoinRow(Head(df), leases, 1) \o sjoin(Tail(df), leases)

\* The rows process_ais writes for a raw dataset; <<>> when it returns None.
FilterRows(rows) ==
    LET df == Prefilter(rows)
    IN  IF Len(df) = 0 THEN <<>> ELSE sjoin(df, load_lease_boundaries)

Row(lat, lon, vt) == [LAT |-> lat, LON |-> lon, VesselType |-> vt]

\* A CSV line whose LAT cell holds text no number can be parsed from.
BadRow(lon, vt) == [LAT_text |-> "abc", LON |-> lon, VesselType |-> vt]

\* The row has no numeric value for one of the columns the scan compares.
Malformed(row) == {"LAT", "LON", "VesselType"} \ (DOMAIN row) # {}

HasMalformed(rows) == \E i \in DOMAIN rows : Malformed(rows[i])

\* Raw daily datasets the remote archive serves.
DayHit       == <<Row(2, 2, 70), Row(2, 2, 30)>>   \* one survivor, one excluded type
DayPreEmpty  == <<Row(2, 2, 37), Row(0, 0, 70)>>   \* all rejected by the prefilter
DayJoinEmpty == <<Row(2, 4, 70), Row(2, 1, 70)>>   \* in the box, within no lease

\* The archive the remote source holds for a day: fixed content per day.
RemoteArchive(d) ==
    CASE d.month = 1 /\ d.day = 31 -> DayPreEmpty
      [] d.month = 2 /\ d.day = 1  -> DayJoinEmpty
      [] OTHER                     -> DayHit

----------------------------------------------------------------------------
(* File names                                                             *)

\* os.path.basename(urlparse(url).path): the tokens after the last "/".
RECURSIVE basename(_)
basename(url) ==
    IF url = <<>> \/ url[Len(url)] = "/" THEN <<>>
    ELSE Append(basename(SubSeq(url, 1, Len(url) - 1)), url[Len(url)])

\* str.replace(old, new) on token sequences
replace(s, old, new) == [i \in DOMAIN s |-> IF s[i] = old THEN new ELSE s[i]]

\* process_date builds the URL from d.year, d.month, d.day.
UrlOf(d) == AIS_URL_TEMPLATE(d.year, d.month, d.day)

\* download_ais: zip_path and csv_path inside data_dir
zip_path(url) == basename(url)
csv_path(url) == replace(basename(url), ".zip", ".csv")

\* Faulty variant: the archive name built from the numbers, without the
\* zero padding
cleanup_zip_name_Unpadded(date_str) ==
    LET f == split(date_str, "-")
    IN  <<"AIS_">> \o f[1] \o <<"_">> \o Str(Num(f[2])) \o <<"_">>
            \o Str(Num(f[3])) \o <<".zip">>

\* cleanup_download: the two names built from date_str.split("-")
cleanup_zip_name(date_str) ==
    LET f == split(date_str, "-")
    IN  <<"AIS_">> \o f[1] \o <<"_">> \o f[2] \o <<"_">> \o f[3] \o <<".zip">>

\* Faulty variant: the CSV name built from the numbers, without the zero padding
cleanup_csv_name_Unpadded(date_str) ==
    LET f == split(date_str, "-")
    IN  <<"AIS_">> \o f[1] \o <<"_">> \o Str(Num(f[2])) \o <<"_">>
            \o Str(Num(f[3])) \o <<".csv">>

cleanup_csv_name(date_str) ==
    LET f == split(date_str, "-")
    IN  <<"AIS_">> \o f[1] \o <<"_">> \o f[2] \o <<"_">> \o f[3] \o <<".csv">>

\* process_date's output_name, and process_ais's gpkg_path inside output_dir
gpkg_path(d) ==
    <<"ais_">> \o Str(d.year) \o <<"_">> \o Pad(d.month, 2) \o <<"_">>
        \o Pad(d.day, 2) \o <<".gpkg">>

----------------------------------------------------------------------------
(* Directories as functions from a file name to the file's content         *)

exists(dir, name) == name \in DOMAIN dir

\* open(name, "wb") / extract / to_file: create or replace the file
WriteFile(dir, name, content) == (name :> content) @@ dir

\* os.remove(name)
RemoveFile(dir, name) == [n \in (DOMAIN dir) \ {name} |-> dir[n]]

\* A file's content: the rows it holds and whether the write that produced
\* it ran to its end.
File(rows, complete) == [rows |-> rows, complete |-> complete]

\* The rows present in a file whose write stopped early.
Prefixes(rows) == {SubSeq(rows, 1, n) : n \in 0..(Len(rows) - 1)}

----------------------------------------------------------------------------
(* batch_process.py helpers                                                *)

\* Faulty variant: the progress file is never found
load_completed_dates_Empty(progress) == {}

\* load_completed_dates(): the set of non-blank lines of progress.txt,
\* the empty set when the file does not exist.
load_completed_dates(progress) == {progress[i] : i \in DOMAIN progress}

\* Faulty variant: the progress file is opened with "w", not "a"
mark_completed_Truncate(progress, date_str) == <<date_str>>

\* mark_completed(date_str): append one line to progress.txt.
mark_completed(progress, date_str) == Append(progress, date_str)

\* generate_dates(start, end): every date from start to end, inclusive.
RECURSIVE generate_from(_, _)
generate_from(current, end_date) ==
    IF DateLeq(current, end_date)
    THEN <<current>> \o generate_from(NextDay(current), end_date)
    ELSE <<>>

generate_dates(start, end) ==
    generate_from(fromisoformat(start), fromisoformat(end))

\* Faulty variant: remaining is all_dates, the ledger is not consulted
Remaining_NoFilter(all_dates, done) == all_dates

\* main: remaining = [d for d in all_dates if d.isoformat() not in completed]
Remaining(all_dates, done) ==
    LET todo(d) == isoformat(d) \notin done
    IN  SelectSeq(all_dates, todo)

\* Faulty variant: mark_completed is never called
LedgerAfter_Never(progress, ok, date_str) == progress

\* Faulty variant: mark_completed is called whatever process_date returned
LedgerAfter_Always(progress, ok, date_str) == mark_completed(progress, date_str)

\* main: the ledger after process_date(d) returned success
LedgerAfter(progress, ok, date_str) ==
    IF ok THEN mark_completed(progress, date_str) ELSE progress

\* Faulty variant: a failed day is tried again at once
NextIndex_Retry(i, ok, n) == IF ok THEN i + 1 ELSE i

\* Faulty variant: the loop breaks at the first failed day
NextIndex_Break(i, ok, n) == IF ok THEN i + 1 ELSE n + 1

\* main: the for loop moves to the next element whatever process_date returned
NextIndex(i, ok, n) == i + 1

\* Faulty variant: an empty result is reported as a failure
ReturnValue_EmptyFails(handler, res) == ~handler /\ res # "None"

\* process_date: the value it returns once cleanup_download has returned,
\* on the try path (handler FALSE) and in the except handler (handler TRUE)
ReturnValue(handler, res) == ~handler

\* Faulty variant: no try/except, every exception leaves process_date
RaiseTarget_NoTry(handler) == "crashed"

\* process_date: where an exception raised at a step goes: to the except
\* handler when raised inside the try block, out of process_date and main
\* when raised inside the handler itself
RaiseTarget(handler) == IF handler THEN "crashed" ELSE "cleanup_zip"

\* Faulty variant: the archive's existence is not tested
download_ais_branch_NoZipTest(dir, url) ==
    IF exists(dir, csv_path(url)) THEN "return" ELSE "download"

\* download_ais: the branch taken on the two exists() tests
download_ais_branch(dir, url) ==
    IF exists(dir, csv_path(url)) THEN "return"
    ELSE IF ~exists(dir, zip_path(url)) THEN "download"
    ELSE "extract"

----------------------------------------------------------------------------
(* State                                                                   *)

VARIABLES
    ledger,         \* progress.txt: the sequence of its lines
    dataDir,        \* data/: name -> File
    outputDir,      \* output/: name -> File
    pc,             \* position of the process running main(), "idle" if none
    all_dates,      \* main: all_dates, the configured range
    completed,      \* main: completed
    remaining,      \* main: remaining
    idx,            \* main: 1-based position of the for loop in remaining
    success_count,  \* main: success_count
    error_count,    \* main: error_count
    handler,        \* process_date: control is inside the except clause
    exc,            \* process_date: the step whose exception was raised last
    result,         \* process_date: result of process_ais ("unset" before)
    success,        \* main: success, the value process_date returned
    cache,          \* lru_cache of load_lease_boundaries holds a value
    runs,           \* number of invocations of main() so far
    entered,        \* history: the days this run called process_date for
    log,            \* history: per returned process_date call of this run
    netOps          \* history: requests.get calls made by this process_date call

vars == <<ledger, dataDir, outputDir, pc, all_dates,
          completed, remaining, idx, success_count, error_count, handler, exc,
          result, success, cache, runs, entered, log, netOps>>

files   == <<ledger, dataDir, outputDir>>
mainVars == <<all_dates, completed, remaining, idx,
              success_count, error_count>>
history == <<entered, log, netOps>>

Running == {"loop", "download_ais", "streaming", "extract", "extracting",
            "process_ais", "filter", "to_file", "cleanup_zip", "cleanup_csv",
            "returned"}
Ended == {"idle", "early", "done", "crashed"}

\* Positions inside process_date (between its call and its return)
InProcessDate == Running \ {"loop", "returned"}

\* The day the for loop is at
Today == remaining[idx]
TodayUrl == UrlOf(Today)

Init ==
    /\ ledger = <<>>
    /\ dataDir = <<>>
    /\ outputDir = <<>>
    /\ pc = "idle"
    /\ all_dates = <<>>
    /\ completed = {}
    /\ remaining = <<>>
    /\ idx = 1
    /\ success_count = 0
    /\ error_count = 0
    /\ handler = FALSE
    /\ exc = "none"
    /\ result = "unset"
    /\ success = FALSE
    /\ cache = FALSE
    /\ runs = 0
    /\ entered = <<>>
    /\ log = <<>>
    /\ netOps = 0

----------------------------------------------------------------------------
(* main()                                                                  *)

\* A new process runs main() up to the for loop: the configured range, the
\* ledger snapshot, all_dates and remaining.
StartRun ==
    /\ pc \in Ended
    /\ runs < MaxRuns
    /\ \E s \in {WindowStart}, e \in Ends :
        LET done == load_completed_dates(ledger)
            all  == generate_dates(isoformat(s), isoformat(e))
            rem  == Remaining(all, done)
        IN  /\ all_dates' = all
            /\ completed' = done
            /\ remaining' = rem
            /\ pc' = IF rem = <<>> THEN "early" ELSE "loop"
    /\ idx' = 1
    /\ success_count' = 0
    /\ error_count' = 0
    /\ handler' = FALSE
    /\ exc' = "none"
    /\ result' = "unset"
    /\ success' = FALSE
    /\ cache' = FALSE
    /\ runs' = runs + 1
    /\ entered' = <<>>
    /\ log' = <<>>
    /\ netOps' = 0
    /\ UNCHANGED files

\* for i, d in enumerate(remaining): success = process_date(d) is called
CallProcessDate ==
    /\ pc = "loop"
    /\ idx <= Len(remaining)
    /\ pc' = "download_ais"
    /\ handler' = FALSE
    /\ exc' = "none"
    /\ result' = "unset"
    /\ entered' = Append(entered, Today)
    /\ netOps' = 0
    /\ UNCHANGED <<files, mainVars, success, cache, runs, log>>

\* The for loop is exhausted: the summary is printed and main returns
Summary ==
    /\ pc = "loop"
    /\ idx > Len(remaining)
    /\ pc' = "done"
    /\ UNCHANGED <<files, mainVars, handler, exc, result, success,
                   cache, runs, history>>

\* process_date returned: mark_completed and the counters, then the next d
AfterProcessDate ==
    /\ pc = "returned"
    /\ ledger' = LedgerAfter(ledger, success, isoformat(Today))
    /\ success_count' = IF success THEN success_count + 1 ELSE success_count
    /\ error_count' = IF success THEN error_count ELSE error_count + 1
    /\ idx' = NextIndex(idx, success, Len(remaining))
    /\ pc' = "loop"
    /\ UNCHANGED <<dataDir, outputDir, all_dates,
                   completed, remaining, handler, exc, result, success, cache,
                   runs, history>>

\* An exception of kind k raised at the current step of process_date
Raise(k) ==
    /\ pc' = RaiseTarget(handler)
    /\ exc' = k
    /\ handler' = TRUE

----------------------------------------------------------------------------
(* download_ais(url, data_dir), called first in process_date's try block   *)

\* The CSV already exists: it is returned, nothing else happens
ReturnExistingCsv ==
    /\ pc = "download_ais"
    /\ download_ais_branch(dataDir, TodayUrl) = "return"
    /\ pc' = "process_ais"
    /\ UNCHANGED <<files, mainVars, handler, exc, result, success,
                   cache, runs, history>>

\* Neither file exists: requests.get / raise_for_status fails, no file is opened
RequestFail ==
    /\ pc = "download_ais"
    /\ download_ais_branch(dataDir, TodayUrl) = "download"
    /\ netOps' = netOps + 1
    /\ Raise("fetch")
    /\ UNCHANGED <<files, mainVars, result, success, cache, runs,
                   entered, log>>

\* Neither file exists: the response is good and open(zip_path, "wb") creates
\* the archive, still without its content
RequestOk ==
    /\ pc = "download_ais"
    /\ download_ais_branch(dataDir, TodayUrl) = "download"
    /\ netOps' = netOps + 1
    /\ dataDir' = WriteFile(dataDir, zip_path(TodayUrl), File(<<>>, FALSE))
    /\ pc' = "streaming"
    /\ UNCHANGED <<ledger, outputDir, mainVars, handler, exc,
                   result, success, cache, runs, entered, log>>

\* Every chunk was written: the archive holds the day's raw dataset
StreamDone ==
    /\ pc = "streaming"
    /\ dataDir' = WriteFile(dataDir, zip_path(TodayUrl),
                            File(RemoteArchive(Today), TRUE))
    /\ pc' = "extract"
    /\ UNCHANGED <<ledger, outputDir, mainVars, handler, exc,
                   result, success, cache, runs, history>>

\* The transfer breaks while streaming: the truncated archive stays
StreamFail ==
    /\ pc = "streaming"
    /\ Raise("fetch")
    /\ UNCHANGED <<files, mainVars, result, success, cache, runs,
                   history>>

\* Only the archive exists: the download is skipped
SkipDownload ==
    /\ pc = "download_ais"
    /\ download_ais_branch(dataDir, TodayUrl) = "extract"
    /\ pc' = "extract"
    /\ UNCHANGED <<files, mainVars, handler, exc, result, success,
                   cache, runs, history>>

\* zipfile.ZipFile(zip_path) on a truncated archive raises BadZipFile
ExtractBadZip ==
    /\ pc = "extract"
    /\ ~dataDir[zip_path(TodayUrl)].complete
    /\ Raise("fetch")
    /\ UNCHANGED <<files, mainVars, result, success, cache, runs,
                   history>>

\* extractall starts writing the CSV
ExtractBegin ==
    /\ pc = "extract"
    /\ dataDir[zip_path(TodayUrl)].complete
    /\ \E part \in Prefixes(dataDir[zip_path(TodayUrl)].rows) :
        dataDir' = WriteFile(dataDir, csv_path(TodayUrl), File(part, FALSE))
    /\ pc' = "extracting"
    /\ UNCHANGED <<ledger, outputDir, mainVars, handler, exc,
                   result, success, cache, runs, history>>

\* extractall finished: download_ais returns csv_path
ExtractDone ==
    /\ pc = "extracting"
    /\ dataDir' = WriteFile(dataDir, csv_path(TodayUrl),
                            File(dataDir[zip_path(TodayUrl)].rows, TRUE))
    /\ pc' = "process_ais"
    /\ UNCHANGED <<ledger, outputDir, mainVars, handler, exc,
                   result, success, cache, runs, history>>

\* extractall fails part way (an I/O error): the truncated CSV stays
ExtractFail ==
    /\ pc = "extracting"
    /\ Raise("fetch")
    /\ UNCHANGED <<files, mainVars, result, success, cache, runs,
                   history>>

----------------------------------------------------------------------------
(* process_ais(csv_path, output_dir, output_name)                          *)

TodayCsv == dataDir[csv_path(TodayUrl)]

\* load_lease_boundaries() returns: from the cache, or by reading the source
LoadLeasesOk ==
    /\ pc = "process_ais"
    /\ cache' = TRUE
    /\ pc' = "filter"
    /\ UNCHANGED <<files, mainVars, handler, exc, result, success,
                   runs, history>>

\* gpd.read_file raises on a missing or unparsable source (the source can be
\* broken or repaired at any time); nothing is cached
LoadLeasesFail ==
    /\ pc = "process_ais"
    /\ ~cache
    /\ Raise("load")
    /\ UNCHANGED <<files, mainVars, result, success, cache, runs,
                   history>>

\* The scan of a truncated CSV can fail on its last, cut line; the scan of
\* a CSV with an unparsable numeric cell fails (scan_csv is called without
\* ignore_errors)
ScanFail ==
    /\ pc = "filter"
    /\ ~TodayCsv.complete \/ HasMalformed(TodayCsv.rows)
    /\ Raise("filter")
    /\ UNCHANGED <<files, mainVars, result, success, cache, runs,
                   history>>

\* No row survives the prefilter or the spatial join: process_ais returns None
FilterEmpty ==
    /\ pc = "filter"
    /\ ~HasMalformed(TodayCsv.rows)
    /\ FilterRows(TodayCsv.rows) = <<>>
    /\ result' = "None"
    /\ pc' = "cleanup_zip"
    /\ UNCHANGED <<files, mainVars, handler, exc, success, cache,
                   runs, history>>

\* Rows survive: result.to_file(gpkg_path) starts writing the output file
WriteBegin ==
    /\ pc = "filter"
    /\ ~HasMalformed(TodayCsv.rows)
    /\ FilterRows(TodayCsv.rows) # <<>>
    /\ outputDir' = WriteFile(outputDir, gpkg_path(Today), File(<<>>, FALSE))
    /\ pc' = "to_file"
    /\ UNCHANGED <<ledger, dataDir, mainVars, handler, exc, result,
                   success, cache, runs, history>>

\* to_file finished: process_ais returns gpkg_path
WriteDone ==
    /\ pc = "to_file"
    /\ outputDir' = WriteFile(outputDir, gpkg_path(Today),
                              File(FilterRows(TodayCsv.rows), TRUE))
    /\ result' = gpkg_path(Today)
    /\ pc' = "cleanup_zip"
    /\ UNCHANGED <<ledger, dataDir, mainVars, handler, exc, success,
                   cache, runs, history>>

\* to_file raises part way (a write error): process_ais removes nothing
WriteFail ==
    /\ pc = "to_file"
    /\ Raise("sink")
    /\ UNCHANGED <<files, mainVars, result, success, cache, runs,
                   history>>

----------------------------------------------------------------------------
(* cleanup_download(date_str), on the try path and in the except handler   *)

\* if zip_path.exists(): os.remove(zip_path)
CleanupZip ==
    /\ pc = "cleanup_zip"
    /\ LET name == cleanup_zip_name(isoformat(Today))
       IN  dataDir' = IF exists(dataDir, name) THEN RemoveFile(dataDir, name)
                      ELSE dataDir
    /\ pc' = "cleanup_csv"
    /\ UNCHANGED <<ledger, outputDir, mainVars, handler, exc,
                   result, success, cache, runs, history>>

\* os.remove(zip_path) raises OSError
CleanupZipFail ==
    /\ pc = "cleanup_zip"
    /\ exists(dataDir, cleanup_zip_name(isoformat(Today)))
    /\ Raise("cleanup")
    /\ UNCHANGED <<files, mainVars, result, success, cache, runs,
                   history>>

\* if csv_path.exists(): os.remove(csv_path); then process_date returns
CleanupCsv ==
    /\ pc = "cleanup_csv"
    /\ LET name == cleanup_csv_name(isoformat(Today))
       IN  dataDir' = IF exists(dataDir, name) THEN RemoveFile(dataDir, name)
                      ELSE dataDir
    /\ success' = ReturnValue(handler, result)
    /\ log' = Append(log, [day |-> Today, err |-> exc,
                           success |-> ReturnValue(handler, result)])
    /\ pc' = "returned"
    /\ UNCHANGED <<ledger, outputDir, mainVars, handler, exc,
                   result, cache, runs, entered, netOps>>

\* os.remove(csv_path) raises OSError
CleanupCsvFail ==
    /\ pc = "cleanup_csv"
    /\ exists(dataDir, cleanup_csv_name(isoformat(Today)))
    /\ Raise("cleanup")
    /\ UNCHANGED <<files, mainVars, result, success, cache, runs,
                   history>>

----------------------------------------------------------------------------
(* The process is killed (Ctrl-C, power loss) at any point of a run: what   *)
(* is on disk stays, what is in memory is lost.                            *)

Interrupt ==
    /\ pc \in Running
    /\ pc' = "idle"
    /\ all_dates' = <<>>
    /\ completed' = {}
    /\ remaining' = <<>>
    /\ idx' = 1
    /\ success_count' = 0
    /\ error_count' = 0
    /\ handler' = FALSE
    /\ exc' = "none"
    /\ result' = "unset"
    /\ success' = FALSE
    /\ cache' = FALSE
    /\ entered' = <<>>
    /\ log' = <<>>
    /\ netOps' = 0
    /\ UNCHANGED <<files, runs>>

Next ==
    \/ StartRun
    \/ CallProcessDate
    \/ Summary
    \/ AfterProcessDate
    \/ ReturnExistingCsv
    \/ RequestFail
    \/ RequestOk
    \/ StreamDone
    \/ StreamFail
    \/ SkipDownload
    \/ ExtractBadZip
    \/ ExtractBegin
    \/ ExtractDone
    \/ ExtractFail
    \/ LoadLeasesOk
    \/ LoadLeasesFail
    \/ ScanFail
    \/ FilterEmpty
    \/ WriteBegin
    \/ WriteDone
    \/ WriteFail
    \/ CleanupZip
    \/ CleanupZipFail
    \/ CleanupCsv
    \/ CleanupCsvFail
    \/ Interrupt

Spec == Init /\ [][Next]_vars

----------------------------------------------------------------------------
(* process_date from the return of download_ais on, for any raw dataset:   *)
(* the filter as a function of the rows of the day's CSV                   *)

\* Coordinates around and inside the lease polygons, and the two sentinels
GridRows ==
    LET gdf == load_lease_boundaries
        I   == DOMAIN gdf
    IN  {Row(lat, lon, 70) :
            lat \in (Min({gdf[i].geometry.miny : i \in I}) - 1)
                        ..(Max({gdf[i].geometry.maxy : i \in I}) + 1),
            lon \in (Min({gdf[i].geometry.minx : i \in I}) - 1)
                        ..(Max({gdf[i].geometry.maxx : i \in I}) + 1)}

SentinelRows == {Row(91, 2, 70), Row(2, 181, 70)}

\* Rows inside a lease polygon with an excluded vessel type
ExcludedRows == {Row(2, 2, 30), Row(3, 6, 65)}

\* The raw datasets a day's CSV can hold: one or two rows
RawRows == GridRows \cup SentinelRows \cup ExcludedRows \cup {BadRow(2, 70)}
RawDatasets == {<<r>> : r \in RawRows} \cup {<<r, q>> : r, q \in RawRows}

\* download_ais has just returned csv_path for the first day of a run
FilterInit ==
    /\ ledger = <<>>
    /\ dataDir \in {(zip_path(UrlOf(WindowStart)) :> File(rows, TRUE))
                       @@ (csv_path(UrlOf(WindowStart)) :> File(rows, TRUE)) :
                     rows \in RawDatasets}
    /\ outputDir = <<>>
    /\ pc = "process_ais"
    /\ all_dates = <<WindowStart>>
    /\ completed = {}
    /\ remaining = <<WindowStart>>
    /\ idx = 1
    /\ success_count = 0
    /\ error_count = 0
    /\ handler = FALSE
    /\ exc = "none"
    /\ result = "unset"
    /\ success = FALSE
    /\ cache = FALSE
    /\ runs = 1
    /\ entered = <<WindowStart>>
    /\ log = <<>>
    /\ netOps = 1

FilterNext ==
    \/ LoadLeasesOk
    \/ LoadLeasesFail
    \/ ScanFail
    \/ FilterEmpty
    \/ WriteBegin
    \/ WriteDone
    \/ WriteFail
    \/ CleanupZip
    \/ CleanupZipFail
    \/ CleanupCsv
    \/ CleanupCsvFail

FilterSpec == FilterInit /\ [][FilterNext]_vars

----------------------------------------------------------------------------
(* Derived notions used by the properties                                  *)

LedgerDays == {ledger[i] : i \in DOMAIN ledger}
RangeDays == {all_dates[i] : i \in DOMAIN all_dates}
EnteredDays == {entered[i] : i \in DOMAIN entered}

\* The n-th day of the window, n = 1, 2, ...
Day(n) == PlusDays(WindowStart, n - 1)

\* Neither transient file of day d is in data/, by the names download_ais uses
NoTransient(d) ==
    /\ ~exists(dataDir, zip_path(UrlOf(d)))
    /\ ~exists(dataDir, csv_path(UrlOf(d)))

\* main has printed the "Batch processing complete!" summary and returned
SummaryPrinted == pc = "done"

\* main has printed "All dates already processed!" and returned
EarlyReturn == pc = "early"

\* process_date has finished calling process_ais for today's day
AfterProcessAis == pc \in {"cleanup_zip", "cleanup_csv", "returned"}

----------------------------------------------------------------------------
(* Properties                                                              *)

\* C1: the days a run calls process_date for are days of the configured
\* range that were not in the ledger when the run started; a run that ends
\* its traversal has called it for exactly those days; and while a day is
\* being fetched, filtered or sunk it is not in the ledger.
C1_ResumeFromLedger ==
    /\ EnteredDays \subseteq {d \in RangeDays : isoformat(d) \notin completed}
    /\ pc \in {"done", "early"} =>
          EnteredDays = {d \in RangeDays : isoformat(d) \notin completed}
    /\ pc \in InProcessDate => isoformat(Today) \notin LedgerDays

\* A second run over the three-day range found two days in the ledger and
\* processed only the third.
C1_Witness ==
    /\ pc = "done" /\ runs = 2
    /\ Len(all_dates) = 3
    /\ completed = {isoformat(Day(1)), isoformat(Day(2))}
    /\ entered = <<Day(3)>>

\* No failed process_date call of this run has its day in the ledger.
C2_InvFailedAbsent ==
    \A i \in DOMAIN log :
        (~log[i].success \/ log[i].err # "none") =>
            /\ ~log[i].success
            /\ isoformat(log[i].day) \notin LedgerDays

\* A step that changes the ledger appends the day whose process_date just
\* returned True with no exception raised and process_ais returned.
C2_StepAppend ==
    ledger' # ledger =>
        /\ pc = "returned"
        /\ ledger' = Append(ledger, isoformat(Today))
        /\ exc = "none" /\ ~handler /\ result # "unset"
        /\ log[Len(log)] = [day |-> Today, err |-> "none", success |-> TRUE]

\* A new run has in its remaining every failed day of the run before that
\* lies in its range.
C2_StepRetry ==
    runs' = runs + 1 =>
        \A i \in DOMAIN log :
            (~log[i].success /\ log[i].day \in {all_dates'[j] : j \in DOMAIN all_dates'})
                => log[i].day \in {remaining'[j] : j \in DOMAIN remaining'}

\* C2: a day whose process_date failed in this run is not in the ledger;
\* a line is appended to the ledger only for the day whose process_date just
\* returned with fetch, filter and sink done and no exception raised; and a
\* new run over a range holding a failed day has that day in its remaining.
C2_FailedDayNotInLedger ==
    /\ []C2_InvFailedAbsent
    /\ [][C2_StepAppend]_vars
    /\ [][C2_StepRetry]_vars

\* A run ended with one day failed at the sink, one failed at the fetch,
\* both absent from the ledger, and one day appended.
C2_Witness ==
    /\ pc = "done"
    /\ \E i \in DOMAIN log : log[i].err = "fetch" /\ isoformat(log[i].day) \notin LedgerDays
    /\ \E i \in DOMAIN log : log[i].err = "sink" /\ isoformat(log[i].day) \notin LedgerDays
    /\ \E i \in DOMAIN log : log[i].success /\ isoformat(log[i].day) \in LedgerDays

\* C3: a run that reaches the end of its traversal has a returned
\* process_date call for every remaining day, in order, whatever failed on
\* the way; the days that returned success are in the ledger and the failed
\* ones are not; and a run ends early only on an exception raised inside
\* the except handler's cleanup, never on a fetch, filter or sink failure.
C3_FailureIsolation ==
    /\ pc = "done" =>
          /\ Len(log) = Len(remaining)
          /\ \A i \in DOMAIN log :
                /\ log[i].day = remaining[i]
                /\ log[i].success <=> log[i].err = "none"
                /\ log[i].success <=> isoformat(remaining[i]) \in LedgerDays
    /\ pc = "crashed" => exc = "cleanup"

\* The three-day run whose second day failed at the fetch: the first and
\* third day are in the ledger, the second is not, the traversal ended.
C3_Witness ==
    /\ pc = "done"
    /\ remaining = <<Day(1), Day(2), Day(3)>>
    /\ Len(log) = 3
    /\ log[1].err = "none" /\ log[2].err = "fetch" /\ log[3].err = "none"
    /\ isoformat(Day(1)) \in LedgerDays
    /\ isoformat(Day(2)) \notin LedgerDays
    /\ isoformat(Day(3)) \in LedgerDays

\* C4: when process_date has returned for a day, on the try path or from the
\* except handler, neither the archive nor the CSV of that day is in data/,
\* and the same holds for every earlier day of the run while the run goes on.
C4_CleanupInvariant ==
    /\ pc = "returned" => NoTransient(Today)
    /\ pc \in Running \cup {"done"} =>
          \A j \in 1..(idx - 1) : j <= Len(remaining) => NoTransient(remaining[j])

\* process_date returned for the second day on the try path after the first
\* day's sink failure was cleaned up in the handler.
C4_Witness ==
    /\ pc = "returned" /\ idx = 2
    /\ log[1].err = "sink"
    /\ exc = "none" /\ success

\* process_ais returns None only when no row is left, and writes nothing.
C5_StepNoneWritesNothing ==
    (pc = "filter" /\ result' = "None") =>
        /\ FilterRows(TodayCsv.rows) = <<>>
        /\ outputDir' = outputDir

\* main appends a day whose process_date returned with the empty result.
C5_StepNoneIsAppended ==
    (pc = "returned" /\ result = "None" /\ exc = "none" /\ pc' = "loop") =>
        ledger' = Append(ledger, isoformat(Today))

\* C5: a day whose filter leaves no row is a success: process_ais returns
\* None only when the prefilter or the join left nothing, and writes nothing
\* to output/; process_date then returns True unless its cleanup raises; and
\* main appends the day to the ledger.
C5_EmptyIsSuccess ==
    /\ [](pc = "returned" /\ result = "None" /\ exc = "none" => success)
    /\ [][C5_StepNoneWritesNothing]_vars
    /\ [][C5_StepNoneIsAppended]_vars

\* The second day (all rows rejected by the prefilter) and the third day
\* (rows in the box but within no lease) are both in the ledger, and no
\* output file exists for either.
C5_Witness ==
    /\ pc = "loop" /\ idx = 4
    /\ isoformat(Day(2)) \in LedgerDays
    /\ isoformat(Day(3)) \in LedgerDays
    /\ ~exists(outputDir, gpkg_path(Day(2)))
    /\ ~exists(outputDir, gpkg_path(Day(3)))
    /\ log[2].success /\ log[3].success

C6_StepCaught ==
    (pc = "process_ais" /\ exc' = "load") => (pc' = "cleanup_zip" /\ handler')

\* After a day failed at the load, main goes on with the next day.
C6_StepContinues ==
    (pc = "returned" /\ exc = "load" /\ pc' # "idle") =>
        (pc' = "loop" /\ idx' = idx + 1 /\ ledger' = ledger)

C7_LedgerNoDuplicates ==
    \A i, j \in DOMAIN ledger : ledger[i] = ledger[j] => i = j

\* A second run, started with a non-empty ledger, completed the ledger of
\* the three-day range.
C7_Witness ==
    /\ runs = 2 /\ pc = "done"
    /\ completed # {}
    /\ Len(ledger) = 3

\* C8: every step leaves the existing lines of the ledger in place: the
\* ledger before the step is a prefix of the ledger after it.
C8_LedgerMonotone ==
    [][/\ Len(ledger') >= Len(ledger)
       /\ SubSeq(ledger', 1, Len(ledger)) = ledger]_vars

\* In a second run, with lines already in the ledger, process_date has
\* returned for a day after cleaning up.
C8_Witness ==
    /\ runs = 2 /\ pc = "returned"
    /\ Len(ledger) >= 1
    /\ success

\* The step download_ais takes on its two exists() tests.
C9_StepDownload ==
    (pc = "download_ais" /\ pc' # "idle") =>
        LET hasCsv == exists(dataDir, csv_path(TodayUrl))
            hasZip == exists(dataDir, zip_path(TodayUrl))
        IN  /\ netOps' = netOps + (IF ~hasCsv /\ ~hasZip THEN 1 ELSE 0)
            /\ hasCsv => /\ pc' = "process_ais"
                         /\ <<ledger, dataDir, outputDir>>' = <<ledger, dataDir, outputDir>>
            /\ (~hasCsv /\ hasZip) => (pc' = "extract" /\ dataDir' = dataDir)

\* No other step makes a network request.
C9_StepOther ==
    netOps' > netOps => pc = "download_ais"

\* C9: a call of download_ais makes a network request exactly when neither
\* the CSV nor the archive exists; with the CSV present it returns at once
\* and changes no file; with only the archive present it goes to the
\* extraction without a request; no other step makes a request.
C9_IdempotentFetch ==
    /\ [][C9_StepDownload]_vars
    /\ [][C9_StepOther]_vars
    /\ [](pc \in InProcessDate \cup {"returned"} => netOps \in {0, 1})

\* A later run called download_ais for a day whose CSV an earlier run had
\* left in place: it returned with no request made, the CSV untouched.
C9_Witness ==
    /\ runs = 2 /\ pc = "process_ais"
    /\ netOps = 0
    /\ exists(dataDir, csv_path(TodayUrl))
    /\ exists(dataDir, zip_path(TodayUrl))

\* C10 as stated: once process_ais has returned, or raised during the write,
\* the output file of the day is complete or absent.
C10_NoPartialOutput ==
    (AfterProcessAis /\ (result # "unset" \/ exc = "sink")) =>
        (exists(outputDir, gpkg_path(Today)) =>
            outputDir[gpkg_path(Today)].complete)

\* The row passes the attribute tests of the prefilter: no sentinel
\* coordinate, no excluded vessel type.
AttrOk(row) ==
    /\ row.LAT # 91 /\ row.LON # 181
    /\ row.VesselType \notin {30, 36, 37} \cup (60..69)

\* The row's point is in the open interior of the rectangle g.
StrictlyInside(row, g) ==
    /\ g.minx < row.LON /\ row.LON < g.maxx
    /\ g.miny < row.LAT /\ row.LAT < g.maxy

\* The row as the output holds it, tagged with a lease number.
Tagged(row, lease) ==
    [LAT |-> row.LAT, LON |-> row.LON, VesselType |-> row.VesselType,
     LEASE_NUMBER |-> lease]

\* process_ais has returned to process_date and the day's CSV is still there
FilterReturned == pc \in {"cleanup_zip", "cleanup_csv"} /\ result # "unset"

\* The rows process_ais has written for today, none when it returned None
FilterOutput ==
    IF result = "None" THEN <<>> ELSE outputDir[gpkg_path(Today)].rows

\* C11: when process_ais has returned, for every row of the day's CSV that
\* passes the attribute tests and every lease polygon, the row tagged with
\* the polygon's LEASE_NUMBER is in the output exactly when its point lies
\* strictly inside the polygon; the output holds one row per such pair and
\* nothing else, so a point on a boundary or inside no polygon is absent.
C11_ContainmentCorrect ==
    FilterReturned =>
        LET rows == TodayCsv.rows
            out  == FilterOutput
            hits == {<<i, k>> \in (DOMAIN rows) \X (DOMAIN LeaseFile) :
                        /\ AttrOk(rows[i])
                        /\ StrictlyInside(rows[i], LeaseFile[k].geometry)}
        IN  /\ \A i \in DOMAIN rows, k \in DOMAIN LeaseFile :
                  AttrOk(rows[i]) =>
                    ((\E j \in DOMAIN out :
                          out[j] = Tagged(rows[i], LeaseFile[k].LEASE_NUMBER))
                      <=> StrictlyInside(rows[i], LeaseFile[k].geometry))
            /\ \A j \in DOMAIN out : \E h \in hits :
                  out[j] = Tagged(rows[h[1]], LeaseFile[h[2]].LEASE_NUMBER)
            /\ Len(out) = Cardinality(hits)

\* process_ais returned the output of a CSV holding a point strictly inside
\* the second polygon and a point on the first polygon's boundary: the
\* output is the first row alone, tagged OCS-B.
C11_Witness ==
    /\ pc = "cleanup_zip" /\ ~handler
    /\ TodayCsv.rows = <<Row(3, 6, 70), Row(2, 3, 70)>>
    /\ result = gpkg_path(Today)
    /\ outputDir[gpkg_path(Today)].rows = <<Tagged(Row(3, 6, 70), "OCS-B")>>

\* C12: every row of the day's CSV that passes the attribute tests and lies
\* strictly inside some lease polygon is kept by the prefilter with the
\* bounds get_lease_bounds returns, and every polygon's extent lies inside
\* those bounds.
C12_PrefilterSound ==
    /\ \A k \in DOMAIN LeaseFile :
          LET g == LeaseFile[k].geometry
              b == get_lease_bounds
          IN  /\ b.min_lon <= g.minx /\ g.maxx <= b.max_lon
              /\ b.min_lat <= g.miny /\ g.maxy <= b.max_lat
    /\ (pc \in {"process_ais", "filter"} /\ ~HasMalformed(TodayCsv.rows)) =>
          LET rows == TodayCsv.rows
              kept == Prefilter(rows)
          IN  \A i \in DOMAIN rows :
                (/\ AttrOk(rows[i])
                 /\ \E k \in DOMAIN LeaseFile :
                        StrictlyInside(rows[i], LeaseFile[k].geometry))
                  => /\ PrefilterKeeps(rows[i], get_lease_bounds)
                     /\ \E j \in DOMAIN kept : kept[j] = rows[i]

\* The scan is about to run on a CSV holding a point inside the second
\* polygon, beyond the first polygon's extent, and a point outside the box:
\* the prefilter keeps the first and rejects the second.
C12_Witness ==
    /\ pc = "filter"
    /\ TodayCsv.rows = <<Row(3, 6, 70), Row(0, 0, 70)>>
    /\ Prefilter(TodayCsv.rows) = <<Row(3, 6, 70)>>

\* The rows of a dataset all of whose numeric cells parse
WellFormed(rows) ==
    LET ok(row) == ~Malformed(row)
    IN  SelectSeq(rows, ok)

\* C13 as stated: when process_ais is over for a CSV holding a malformed
\* row, no filter exception was raised for the day, and what process_ais
\* returned is the filter output of the CSV's well-formed rows.
C13_MalformedRowNotFatal ==
    (/\ pc \in {"cleanup_zip", "cleanup_csv"}
     /\ exists(dataDir, csv_path(TodayUrl))
     /\ HasMalformed(TodayCsv.rows)) =>
        /\ exc # "filter"
        /\ result # "unset" =>
              /\ FilterRows(WellFormed(TodayCsv.rows)) = <<>> => result = "None"
              /\ FilterRows(WellFormed(TodayCsv.rows)) # <<>> =>
                    /\ result = gpkg_path(Today)
                    /\ outputDir[gpkg_path(Today)].rows
                          = FilterRows(WellFormed(TodayCsv.rows))

\* Day a is earlier in the calendar than day b.
Before(a, b) ==
    \/ a.year < b.year
    \/ a.year = b.year /\ a.month < b.month
    \/ a.year = b.year /\ a.month = b.month /\ a.day < b.day

\* The sequence of days is in strictly ascending calendar order.
Ascending(days) ==
    \A i, j \in DOMAIN days : i < j => Before(days[i], days[j])

\* C14: in a run, all_dates holds consecutive calendar days in ascending
\* order and remaining holds, in that order, those of them not in the ledger
\* at the start; the days process_date was called for are the first days of
\* remaining, in order, each once; while process_date runs for a day every
\* earlier call has returned after its cleanup, and between two calls every
\* day that returned success is in the ledger; and a run over an empty
\* range calls process_date for no day.
C14_SequentialAscending ==
    /\ \A i \in 1..(Len(all_dates) - 1) : all_dates[i + 1] = NextDay(all_dates[i])
    /\ Ascending(remaining)
    /\ {remaining[i] : i \in DOMAIN remaining}
          = {d \in RangeDays : isoformat(d) \notin completed}
    /\ Len(entered) <= Len(remaining)
    /\ entered = SubSeq(remaining, 1, Len(entered))
    /\ Ascending(entered)
    /\ pc \in InProcessDate =>
          /\ Len(entered) = idx
          /\ Len(log) = idx - 1
    /\ pc \in {"loop", "done"} =>
          /\ Len(entered) = idx - 1
          /\ Len(log) = idx - 1
          /\ \A i \in DOMAIN log :
                log[i].success => isoformat(log[i].day) \in LedgerDays
    /\ \A i \in DOMAIN log :
          log[i].day = entered[i] /\ NoTransient(log[i].day)
    /\ all_dates = <<>> => (entered = <<>> /\ pc \in Ended)

\* A second run over the three-day range, with the second day alone in the
\* ledger at its start, has appended the first day and is fetching the third.
C14_Witness ==
    /\ runs = 2 /\ pc = "download_ais"
    /\ completed = {isoformat(Day(2))}
    /\ remaining = <<Day(1), Day(3)>>
    /\ entered = <<Day(1), Day(3)>>
    /\ log[1].success /\ isoformat(Day(1)) \in LedgerDays

\* A step that writes to output/ is a step of process_ais on the try path,
\* after download_ais returned the day's CSV and the filter left rows, and
\* it writes the day's own output file.
C15_StepSink ==
    outputDir' # outputDir =>
        /\ pc \in {"filter", "to_file"}
        /\ ~handler /\ exc = "none"
        /\ exists(dataDir, csv_path(TodayUrl))
        /\ FilterRows(TodayCsv.rows) # <<>>
        /\ \A n \in (DOMAIN outputDir') \ {gpkg_path(Today)} :
              n \in DOMAIN outputDir /\ outputDir'[n] = outputDir[n]

\* A step that appends to the ledger comes after process_date returned for
\* the day, its cleanup done, with neither transient file of the day left.
C15_StepAppend ==
    ledger' # ledger =>
        /\ pc = "returned"
        /\ ledger' = Append(ledger, isoformat(Today))
        /\ log # <<>> /\ log[Len(log)].day = Today
        /\ NoTransient(Today)
        /\ ~exists(dataDir, cleanup_zip_name(isoformat(Today)))
        /\ ~exists(dataDir, cleanup_csv_name(isoformat(Today)))

\* C15: output/ is written only by process_ais after the day's fetch
\* returned its CSV and the filter left rows, with no exception raised; the
\* ledger is appended only after the day's cleanup_download has returned,
\* when neither the archive nor the CSV of the day exists.
C15_StageOrder ==
    /\ [][C15_StepSink]_vars
    /\ [][C15_StepAppend]_vars

\* The first day was fetched, filtered, written, cleaned up and appended:
\* its output file is complete and no transient file of it is left.
C15_Witness ==
    /\ pc = "loop" /\ idx = 2 /\ runs = 1
    /\ ledger = <<isoformat(Day(1))>>
    /\ exists(outputDir, gpkg_path(Day(1)))
    /\ outputDir[gpkg_path(Day(1))].complete
    /\ NoTransient(Day(1))

\* The archives and the CSVs in data/, by the suffix of their names
Archives == {n \in DOMAIN dataDir : n[Len(n)] = ".zip"}
RawCsvs  == {n \in DOMAIN dataDir : n[Len(n)] = ".csv"}

\* C16 as stated: in every state data/ holds at most one archive and at
\* most one CSV, and every file in it is a transient file of the day
\* process_date is running for.
C16_BoundedTransient ==
    /\ Cardinality(Archives) <= 1
    /\ Cardinality(RawCsvs) <= 1
    /\ \A n \in DOMAIN dataDir :
          /\ pc \in InProcessDate
          /\ n \in {zip_path(TodayUrl), csv_path(TodayUrl)}

\* Two archives at once: an interrupted run left the second day's archive,
\* and the next run is streaming the first day's.
C16_TwoArchives ==
    /\ pc = "streaming" /\ Today = Day(1)
    /\ exists(dataDir, zip_path(UrlOf(Day(2))))

\* C17 as stated: no step of any run writes an output file that has been
\* completely written: such a file is left as it is by every step.
C17_OutputWrittenOnce ==
    [][\A n \in DOMAIN outputDir :
          outputDir[n].complete =>
              (n \in DOMAIN outputDir' /\ outputDir'[n] = outputDir[n])]_vars

\* C18 as stated: between two days of a run and when a run has ended, a
\* day of the window has an output file exactly when the day is in the
\* ledger and the filter of its raw dataset leaves rows.
C18_OutputIffLedger ==
    pc \in {"loop", "done", "early"} =>
        \A d \in Window :
            exists(outputDir, gpkg_path(d))
                <=> (/\ isoformat(d) \in LedgerDays
                     /\ FilterRows(RemoteArchive(d)) # <<>>)

\* C19 as stated: the only exception that leaves process_date and ends the
\* run is a polygon-load failure.
C19_ExceptionsContained ==
    pc = "crashed" => exc = "load"

\* The days of the range that were not in the ledger when the run started
ToProcess == {d \in RangeDays : isoformat(d) \notin completed}

\* The days this run has appended to the ledger
Appended == {ledger[i] : i \in DOMAIN ledger} \ completed

\* The two counts add up to the days to process, and the completed count
\* is the number of days appended.
CountsAgree ==
    /\ success_count + error_count = Cardinality(ToProcess)
    /\ success_count = Cardinality(Appended)
    /\ Len(ledger) = Cardinality(completed) + success_count

\* C20 as stated: a run whose traversal is over, the run with nothing left
\* to process included, has printed the summary, and the counts agree.
C20_SummaryAlways ==
    (SummaryPrinted \/ EarlyReturn) => (SummaryPrinted /\ CountsAgree)

\* Once the for loop is exhausted the next step of main prints the summary.
C20_StepSummary ==
    (pc = "loop" /\ idx > Len(remaining) /\ pc' # "idle") => SummaryPrinted'

\* C20, amended: a run with at least one day to process that reaches the end
\* of its traversal prints the summary, its two counts add up to the number
\* of days of the range not in the ledger at the start, and its completed
\* count is the number of days the run appended; a run with no day left to
\* process returns before the summary, with both counts zero and nothing
\* appended.
C20_SummaryUnlessNothingToDo ==
    /\ [](SummaryPrinted => (remaining # <<>> /\ CountsAgree))
    /\ [](EarlyReturn => /\ remaining = <<>> /\ ToProcess = {}
                         /\ success_count = 0 /\ error_count = 0
                         /\ Appended = {})
    /\ [][C20_StepSummary]_vars

\* A second run, started with a non-empty ledger, printed the summary with
\* one day completed and one failed.
C20_Witness ==
    /\ SummaryPrinted /\ runs = 2
    /\ completed # {}
    /\ success_count = 1 /\ error_count = 1
    /\ Cardinality(Appended) = 1

\* The output of day d is what the filter leaves of the day's whole raw
\* dataset: a complete file with those rows, or no file when none is left.
OutputOfWholeData(d) ==
    LET rows == FilterRows(RemoteArchive(d))
    IN  IF rows = <<>> THEN ~exists(outputDir, gpkg_path(d))
        ELSE /\ exists(outputDir, gpkg_path(d))
             /\ outputDir[gpkg_path(d)].complete
             /\ outputDir[gpkg_path(d)].rows = rows

\* C21 as stated: in every run, after whatever interruptions, the filter
\* reads only a CSV whose decompression ran to completion from an archive
\* whose download ran to completion, and every day in the ledger was
\* appended on the basis of its whole raw dataset.
C21_RestartReadsWholeData ==
    /\ pc \in {"filter", "to_file"} =>
          /\ TodayCsv.complete
          /\ TodayCsv.rows = RemoteArchive(Today)
    /\ pc \in {"loop", "done", "early"} =>
          \A d \in Window :
              isoformat(d) \in LedgerDays => OutputOfWholeData(d)

\* The first day is in the ledger with no output file, although the filter
\* of its whole raw dataset leaves a row: a later run filtered the empty
\* CSV an interrupted decompression had left.
C21_AppendedOnTruncated ==
    /\ pc = "loop" /\ runs = 2
    /\ isoformat(Day(1)) \in LedgerDays
    /\ FilterRows(RemoteArchive(Day(1))) # <<>>
    /\ ~exists(outputDir, gpkg_path(Day(1)))

====
